---------------------------- MODULE Spec2Model ----------------------------
(***************************************************************************)
(* A model of the iso_file crate: the ISO 9660 image writer                *)
(* (IsoFileWriter: append_file, close, with the layout planner build_dirs, *)
(* build_sectors, set_locations and the path-table builder) and the reader *)
(* (IsoFileReader: read, read_file).                                       *)
(*                                                                         *)
(* Conventions.  A string of the program is a sequence of one-character    *)
(* strings; the bytes 0x00 and 0x01 are written "NUL" and "SOH".  A        *)
(* borrowed byte slice &[u8] is a record [id, off, len]: the len bytes at  *)
(* offset off of the caller's buffer id.  A PathBuf is a record            *)
(* [abs, comps]: whether it starts with the root and its components.       *)
(* The sink is the sequence of regions written to it, each with its byte   *)
(* size and what the bytes hold.                                           *)
(***************************************************************************)
EXTENDS Integers, Sequences, FiniteSets, TLC

(***************************************************************************)
(* Bounds of the exploration.                                              *)
(***************************************************************************)
\* staged files in a run over the short-name inputs
MaxFiles == 4
\* long file names of one directory (eight records of 254 bytes fill a sector)
LongFileCount == 8
\* first-level directories with 221-character names (eighteen path-table
\* entries of 230 bytes do not fit the two sectors of a path table)
WideDirCount == 18
\* close() calls on one writer
MaxCloses == 2
\* staged files of a writer that is used again after a close()
MaxReused == 1
\* staged files of a writer whose sink fails
MaxFilesFailing == 1
\* close() calls of one writer during which the sink may fail: the first ones
MaxFailingCloses == 1
\* bytes a failed write leaves in the sink: none, or up to this many
TornSize == 1
\* append_file calls of a run over the raw paths
MaxRawAppends == 2

\* the largest number of nested directories of a chain under SpecChain
MaxChainDirs == 135

\* the years of the timestamps staged under SpecYears, and how many files
YearFirst == 1890

YearLast == 2170

MaxYearAppends == 1

(***************************************************************************)
(* Program constants.                                                      *)
(***************************************************************************)
LOGICAL_BLOCK_SIZE == 2048
\* start_location passed to set_locations, RootDirectoryEntry.location_of_extent
StartLocation == 23
\* size_of::<IsoDirectoryHeader>()
DirHeaderSize == 33
\* size_of::<IsoPathTableEntryHeader>()
PathHeaderSize == 8
\* chars().take(222) in append_file
MaxComponentLen == 222
\* [0usize; 128] in set_locations
CountStackLen == 128
\* size_of::<IsoHeaderRaw>(), the packed fields summed
HeaderRawSize == 2048
\* written before the header: 0x8000 bytes
BootAreaSize == 32768
U8 == 256
U16 == 65536

\* "as u32" of a usize: every non-negative integer of the exploration is below
\* 2^31 (TLC's integers are 32-bit), where the cast changes nothing
AsU32(x) == x

(***************************************************************************)
(* Generic helpers on sequences.                                           *)
(***************************************************************************)
Last(s) == s[Len(s)]

Front(s) == SubSeq(s, 1, Len(s) - 1)

Min(a, b) == IF a < b THEN a ELSE b

IsPrefix(p, s) == Len(p) <= Len(s) /\ SubSeq(s, 1, Len(p)) = p

RECURSIVE SumSeq(_)
SumSeq(s) == IF s = <<>> THEN 0 ELSE s[1] + SumSeq(Tail(s))

RECURSIVE Flatten(_)
Flatten(ss) == IF ss = <<>> THEN <<>> ELSE ss[1] \o Flatten(Tail(ss))

\* substring test, str.contains(pat)
Contains(s, pat) ==
    \E i \in 1..(Len(s) - Len(pat) + 1) : SubSeq(s, i, i + Len(pat) - 1) = pat

(***************************************************************************)
(* append_file: path normalisation.                                        *)
(***************************************************************************)
LowerCase == <<"a","b","c","d","e","f","g","h","i","j","k","l","m",
               "n","o","p","q","r","s","t","u","v","w","x","y","z">>

UpperCase == <<"A","B","C","D","E","F","G","H","I","J","K","L","M",
               "N","O","P","Q","R","S","T","U","V","W","X","Y","Z">>

Digits == {"0","1","2","3","4","5","6","7","8","9"}

Punctuation == {"!", "\"", "%", "&", "'", "(", ")", "*", "+", ",", "-", ".", "/",
                ":", ";", "<", "=", ">", "?"}

\* char::to_uppercase on the characters of the model's alphabet
ToUpper(c) ==
    IF \E i \in 1..26 : LowerCase[i] = c
    THEN UpperCase[CHOOSE i \in 1..26 : LowerCase[i] = c]
    ELSE c

\* the matches!(c, ...) of append_file
IsACharacter(c) ==
    \/ \E i \in 1..26 : UpperCase[i] = c
    \/ c \in Digits
    \/ c = "_"
    \/ c \in Punctuation

\* path.to_uppercase().chars().filter(..).collect::<String>()
ACharacters(path) == SelectSeq([i \in 1..Len(path) |-> ToUpper(path[i])], IsACharacter)

\* the pieces of s between '/' separators (empty pieces included)
SplitSlash(s) ==
    LET slashes == SelectSeq([i \in 1..Len(s) |-> i], LAMBDA i : s[i] = "/")
        from(k) == IF k = 1 THEN 1 ELSE slashes[k - 1] + 1
        to(k)   == IF k > Len(slashes) THEN Len(s) ELSE slashes[k] - 1
    IN  [k \in 1..(Len(slashes) + 1) |-> SubSeq(s, from(k), to(k))]

\* Path::components(): the root, then the non-empty pieces; "." is dropped
\* except as the first component of a relative path
Components(s) ==
    LET abs    == s # <<>> /\ s[1] = "/"
        pieces == SplitSlash(s)
        keep   == [i \in 1..Len(pieces) |->
                     /\ pieces[i] # <<>>
                     /\ (pieces[i] = <<".">> => (~abs /\ i = 1))]
        RECURSIVE Pick(_)
        Pick(i) == IF i > Len(pieces) THEN <<>>
                   ELSE IF keep[i] THEN <<pieces[i]>> \o Pick(i + 1)
                   ELSE Pick(i + 1)
    IN  [abs |-> abs, comps |-> Pick(1)]

\* a variant of Take for comparison: nothing is cut off
TakeAll(s, n) == s

\* chars().take(222)
Take(s, n) == SubSeq(s, 1, Min(Len(s), n))

\* the loop of append_file pushing every truncated component onto new_path
NormalizePath(path) ==
    LET c == Components(ACharacters(path))
    IN  [abs |-> c.abs,
         comps |-> [i \in 1..Len(c.comps) |-> Take(c.comps[i], MaxComponentLen)]]

\* Path::components().count()
ComponentCount(p) == (IF p.abs THEN 1 ELSE 0) + Len(p.comps)

\* Path::starts_with
StartsWith(p, base) == p.abs = base.abs /\ IsPrefix(base.comps, p.comps)

\* PathBuf::from("/").join(p.strip_prefix(base).unwrap())
StripJoinRoot(p, base) ==
    [abs |-> TRUE, comps |-> SubSeq(p.comps, Len(base.comps) + 1, Len(p.comps))]

\* Path::join with one component
Join(base, name) == [abs |-> base.abs, comps |-> Append(base.comps, name)]

RootPath == [abs |-> TRUE, comps |-> <<>>]

(***************************************************************************)
(* Directory entries (core.rs).                                            *)
(***************************************************************************)
\* the year Utc::now() yields while the image is built
NowYear == 2026

CurrentDirectory == [kind |-> "cur", name |-> <<>>]

ParentDirectory == [kind |-> "par", name |-> <<>>]

Directory(name) == [kind |-> "dir", name |-> name]

File(name) == [kind |-> "file", name |-> name]

\* IsoEntry::name: the identifier written to the image
EntryName(entry) ==
    CASE entry.kind = "cur"  -> <<"NUL">>
      [] entry.kind = "par"  -> <<"SOH">>
      [] entry.kind = "dir"  -> entry.name
      [] entry.kind = "file" -> entry.name \o <<";", "1">>

\* impl From<Vec<u8>> for IsoEntry: the entry a reader makes of an identifier
EntryFromBytes(id) ==
    IF id = <<"NUL">> THEN CurrentDirectory
    ELSE IF id = <<"SOH">> THEN ParentDirectory
    ELSE IF Contains(id, <<";", "1">>)
         THEN IF Len(id) >= 2 /\ SubSeq(id, Len(id) - 1, Len(id)) = <<";", "1">>
              THEN File(SubSeq(id, 1, Len(id) - 2))
              ELSE File(<<>>)
    ELSE Directory(id)

\* IsoDateTime::try_from: only the year byte is kept by the model
IsoYear(year) == (year - 1900) % U8

\* IsoDirectoryEntry::new.  The u8 additions of real_length and length wrap
\* when overflow checks are off; ovf records that one of them overflowed
\* (a panic when the build has overflow checks on).
NewEntry(data_offset, data_length, year, entry) ==
    LET id_len      == Len(EntryName(entry))
        real_sum    == DirHeaderSize + (id_len % U8)
        real_length == real_sum % U8
        len_sum     == real_length + 1
        length      == (len_sum % U8) - ((len_sum % U8) % 2)
    IN  [entry |-> entry,
         length |-> length,
         location |-> AsU32(data_offset),
         data_length |-> AsU32(data_length),
         year |-> IsoYear(year),
         flags |-> IF entry.kind = "file" THEN 0 ELSE 2,
         volume_seq |-> 256,
         id_len |-> id_len % U8,
         is_odd |-> real_length # length,
         ovf |-> (real_sum >= U8 \/ len_sum >= U8)]

\* IsoDirectoryEntry::len
EntryLen(e) == e.length

\* the byte count IsoDirectoryEntry::write emits and returns
EntryWriteSize(e) ==
    DirHeaderSize + Len(EntryName(e.entry)) + (IF e.is_odd THEN 1 ELSE 0)

(***************************************************************************)
(* Pass 1: build_dirs and build_sectors (lib.rs).                          *)
(***************************************************************************)
\* a variant of Chunks for comparison: a last chunk even when nothing is left
ChunksWithTail(content) ==
    [i \in 1..(content.len \div LOGICAL_BLOCK_SIZE + 1) |->
       [id |-> content.id,
        off |-> content.off + (i - 1) * LOGICAL_BLOCK_SIZE,
        len |-> IF i * LOGICAL_BLOCK_SIZE <= content.len THEN LOGICAL_BLOCK_SIZE
                ELSE content.len % LOGICAL_BLOCK_SIZE]]

\* content.chunks(LOGICAL_BLOCK_SIZE)
Chunks(content) ==
    LET n == (content.len + LOGICAL_BLOCK_SIZE - 1) \div LOGICAL_BLOCK_SIZE
    IN  [i \in 1..n |->
           [id |-> content.id,
            off |-> content.off + (i - 1) * LOGICAL_BLOCK_SIZE,
            len |-> Min(LOGICAL_BLOCK_SIZE, content.len - (i - 1) * LOGICAL_BLOCK_SIZE)]]

\* the push-or-start-a-new-sector step shared by the two loops of build_dirs;
\* st = [done: finished sectors, cur: records of the open sector, size, fs]
PushRecord(st, rec, props) ==
    LET size == st.size + EntryLen(rec)
    IN  IF size > LOGICAL_BLOCK_SIZE
        THEN [st EXCEPT !.done = Append(st.done, [entries |-> st.cur, props |-> props]),
                        !.size = EntryLen(rec),
                        !.cur = <<rec>>]
        ELSE [st EXCEPT !.size = size, !.cur = Append(st.cur, rec)]

\* a variant of RecordDataLength for comparison: whole sectors
RecordDataLengthRounded(content) ==
    ((content.len + LOGICAL_BLOCK_SIZE - 1) \div LOGICAL_BLOCK_SIZE) * LOGICAL_BLOCK_SIZE

\* entry.content.len(), the data_length argument of a File record
RecordDataLength(content) == content.len

\* the "files" loop of build_dirs
RECURSIVE FilesLoop(_, _, _)
FilesLoop(st, entries, props) ==
    IF entries = <<>> THEN st
    ELSE LET e == entries[1]
         IN  IF ComponentCount(e.path) = 2
             THEN LET rec == NewEntry(Len(st.fs), RecordDataLength(e.content), e.timestamp,
                                      File(Last(e.path.comps)))
                      st1 == PushRecord(st, rec, props)
                  IN  FilesLoop([st1 EXCEPT !.fs = st.fs \o Chunks(e.content)],
                                Tail(entries), props)
             ELSE FilesLoop(st, Tail(entries), props)

\* the "folders" loop of build_dirs
RECURSIVE FoldersLoop(_, _, _)
FoldersLoop(st, entries, props) ==
    IF entries = <<>> THEN st
    ELSE LET e == entries[1]
         IN  IF ComponentCount(e.path) > 2
                /\ ~(\E i \in 1..Len(st.folders) : st.folders[i] = e.path.comps[1])
             THEN LET rec == NewEntry(0, 0, NowYear, Directory(e.path.comps[1]))
                      st1 == PushRecord(st, rec, props)
                  IN  FoldersLoop([st1 EXCEPT !.folders = Append(st.folders, e.path.comps[1])],
                                  Tail(entries), props)
             ELSE FoldersLoop(st, Tail(entries), props)

\* a variant of DirRecords for comparison: the folders loop runs first
DirRecordsFoldersFirst(st, file_entries, props) ==
    FilesLoop(FoldersLoop(st, file_entries, props), file_entries, props)

\* the two loops of build_dirs in their order: files, then folders
DirRecords(st, file_entries, props) ==
    FoldersLoop(FilesLoop(st, file_entries, props), file_entries, props)

\* the start of build_dirs: an open sector holding "." and ".."
DirsStart(cur_dir, par_dir, files_sectors) ==
    [done |-> <<>>,
     cur |-> <<cur_dir, par_dir>>,
     size |-> EntryLen(cur_dir) + EntryLen(par_dir),
     fs |-> files_sectors,
     folders |-> <<>>]

\* the end of build_dirs: the open sector is pushed and the tuple returned
DirsEnd(st, props) ==
    [dirs_sectors |-> Append(st.done, [entries |-> st.cur, props |-> props]),
     folders |-> st.folders,
     files_sectors |-> st.fs]

\* a variant of build_dirs for comparison: every sector is given depth 0
build_dirs_depthless(file_entries, files_sectors, group_no, depth) ==
    DirsEnd(DirRecords(DirsStart(NewEntry(0, 0, NowYear, CurrentDirectory),
                                 NewEntry(0, 0, NowYear, ParentDirectory),
                                 files_sectors),
                       file_entries, [group_no |-> group_no, depth |-> 0]),
            [group_no |-> group_no, depth |-> 0])

\* build_dirs: the sectors of one directory, its folders, and files_sectors
build_dirs(file_entries, files_sectors, group_no, depth) ==
    DirsEnd(DirRecords(DirsStart(NewEntry(0, 0, NowYear, CurrentDirectory),
                                 NewEntry(0, 0, NowYear, ParentDirectory),
                                 files_sectors),
                       file_entries, [group_no |-> group_no, depth |-> depth]),
            [group_no |-> group_no, depth |-> depth])

\* a variant of FilteredEntries for comparison: of the entries staged under
\* one path only the first is kept
FilteredEntriesDedup(files, base, stripped) ==
    LET first == SelectSeq([i \in 1..Len(files) |-> i], LAMBDA i :
                     \A j \in 1..(i - 1) : files[j].path # files[i].path)
        sel   == SelectSeq([k \in 1..Len(first) |-> files[first[k]]],
                           LAMBDA t : StartsWith(t.path, base))
    IN  [i \in 1..Len(sel) |->
           [path |-> IF stripped THEN StripJoinRoot(sel[i].path, base) ELSE sel[i].path,
            content |-> sel[i].content,
            timestamp |-> sel[i].timestamp]]

\* the filter_map of build_sectors
FilteredEntries(files, base, stripped) ==
    LET sel == SelectSeq(files, LAMBDA t : StartsWith(t.path, base))
    IN  [i \in 1..Len(sel) |->
           [path |-> IF stripped THEN StripJoinRoot(sel[i].path, base) ELSE sel[i].path,
            content |-> sel[i].content,
            timestamp |-> sel[i].timestamp]]

\* build_sectors; acc = [dirs_sectors, files_sectors, group_no] are its three
\* &mut arguments.  Every sector also carries base, the base path of the call
\* that built it (not stored by the program; used to state properties).
\* the sectors of one build_dirs call, each with the base path of the call
Tagged(new_dirs_sectors, base) ==
    [i \in 1..Len(new_dirs_sectors) |->
       [entries |-> new_dirs_sectors[i].entries,
        props |-> new_dirs_sectors[i].props,
        base |-> base]]

RECURSIVE build_sectors(_, _, _, _, _)
RECURSIVE AppendBuilt(_, _, _, _, _)
RECURSIVE FolderCalls(_, _, _, _, _)
build_sectors(acc, files, depth, base, is_some) ==
    AppendBuilt(acc, files, depth, base,
                build_dirs(FilteredEntries(files, base, is_some),
                           acc.files_sectors, acc.group_no, depth))

\* dirs_sectors.append(&mut new_dirs_sectors); *group_no += 1; the loop
AppendBuilt(acc, files, depth, base, built) ==
    FolderCalls([dirs_sectors |-> acc.dirs_sectors \o Tagged(built.dirs_sectors, base),
                 files_sectors |-> built.files_sectors,
                 group_no |-> acc.group_no + 1],
                files, depth, base, built.folders)

\* the "for folder in folders" loop of build_sectors
FolderCalls(acc, files, depth, base, folders) ==
    IF folders = <<>> THEN acc
    ELSE FolderCalls(build_sectors(acc, files, depth + 1, Join(base, folders[1]), TRUE),
                     files, depth, base, Tail(folders))

(***************************************************************************)
(* Pass 2: Groups, ParentDirectoryStack and set_locations (lib.rs).        *)
(***************************************************************************)
\* the position of the first sector of every group_no, in increasing order:
\* the sectors or_insert makes a GroupValues for
GroupsFirst(items) ==
    SelectSeq([i \in 1..Len(items) |-> i], LAMBDA i :
        \A j \in 1..(i - 1) : items[j].props.group_no # items[i].props.group_no)

\* a variant of GroupsValues for comparison: sector indices counted from 1
GroupsValuesOneBased(items, first) ==
    [k \in 1..Len(first) |->
       [index |-> first[k],
        depth |-> items[first[k]].props.depth,
        count |-> Cardinality({j \in 1..Len(items) :
                     items[j].props.group_no = items[first[k]].props.group_no})]]

\* the GroupValues of the groups whose first sectors are at first
GroupsValues(items, first) ==
    [k \in 1..Len(first) |->
       [index |-> first[k] - 1,
        depth |-> items[first[k]].props.depth,
        count |-> Cardinality({j \in 1..Len(items) :
                     items[j].props.group_no = items[first[k]].props.group_no})]]

\* Groups::new: one GroupValues per group_no, sorted by first sector index
\* (the concatenation makes the Vec a sequence value computed once)
GroupsNew(items) == GroupsValues(items, GroupsFirst(items)) \o <<>>

\* Groups::get(index) is groups[index + 1]; it panics when this is false
GroupsHas(groups, index) == index >= 0 /\ index < Len(groups)

\* ParentDirectoryStack::set; the front of the VecDeque is element 1
StackSet(stack, groups, props) ==
    IF Len(stack) # props.depth + 1
    THEN IF Len(stack) < props.depth + 1
         THEN <<groups[props.group_no + 1]>> \o stack
         ELSE Tail(stack)
    ELSE stack

\* ParentDirectoryStack::get, defined when StackGetOk
StackGet(stack) == IF Len(stack) = 1 THEN stack[1] ELSE stack[2]

StackGetOk(stack) == Len(stack) >= 1

\* a variant of ScanChild for comparison: the next group, whatever its depth
ScanChildNoDepthTest(count, groups, group_no, depth) ==
    IF ~GroupsHas(groups, group_no + count + 1) THEN -1 ELSE count + 1

\* the loop of the Directory arm: the counter after the scan, or -1 when
\* Groups::get panics on an index past the last group
RECURSIVE ScanChild(_, _, _, _)
ScanChild(count, groups, group_no, depth) ==
    LET c == count + 1
    IN  IF ~GroupsHas(groups, group_no + c) THEN -1
        ELSE IF groups[group_no + c + 1].depth = depth + 1 THEN c
        ELSE ScanChild(c, groups, group_no, depth)

\* a variant of FileLocation for comparison: directory sectors not counted
FileLocationNoDirs(start_location, dirs_sectors_count, location) ==
    AsU32(start_location + location)

\* the File arm: the provisional location shifted past the directory sectors
FileLocation(start_location, dirs_sectors_count, location) ==
    AsU32(start_location + dirs_sectors_count + location)

\* one iteration of "for dirs in sector"; st = [stack, count_stack, out,
\* path_group, panic], count_stack[g + 1] being the program's count_stack[g]
SetRecord(st, dirs, props, groups, start_location, dirs_sectors_count) ==
    IF st.panic THEN st
    ELSE CASE dirs.entry.kind = "cur" ->
              IF ~GroupsHas(groups, props.group_no) THEN [st EXCEPT !.panic = TRUE]
              ELSE LET group == groups[props.group_no + 1]
                   IN  [st EXCEPT !.out = Append(@,
                          [dirs EXCEPT !.location = AsU32(start_location + group.index),
                                       !.data_length = AsU32(group.count * LOGICAL_BLOCK_SIZE)])]
           [] dirs.entry.kind = "par" ->
              IF ~StackGetOk(st.stack) THEN [st EXCEPT !.panic = TRUE]
              ELSE LET group == StackGet(st.stack)
                   IN  [st EXCEPT !.out = Append(@,
                          [dirs EXCEPT !.location = AsU32(start_location + group.index),
                                       !.data_length = AsU32(group.count * LOGICAL_BLOCK_SIZE)])]
           [] dirs.entry.kind = "dir" ->
              IF props.group_no >= CountStackLen THEN [st EXCEPT !.panic = TRUE]
              ELSE LET c == ScanChild(st.count_stack[props.group_no + 1], groups,
                                      props.group_no, props.depth)
                   IN  IF c < 0 THEN [st EXCEPT !.panic = TRUE]
                       ELSE LET group    == groups[props.group_no + c + 1]
                                location == start_location + group.index
                            IN  [st EXCEPT
                                   !.count_stack[props.group_no + 1] = c,
                                   !.path_group = Append(@, <<dirs.entry.name, location>>),
                                   !.out = Append(@,
                                     [dirs EXCEPT !.location = AsU32(location),
                                                  !.data_length =
                                                     AsU32(group.count * LOGICAL_BLOCK_SIZE)])]
           [] dirs.entry.kind = "file" ->
              [st EXCEPT !.out = Append(@,
                 [dirs EXCEPT !.location =
                    FileLocation(start_location, dirs_sectors_count, dirs.location)])]

RECURSIVE SetRecords(_, _, _, _, _, _)
SetRecords(st, sector, props, groups, start_location, dirs_sectors_count) ==
    IF sector = <<>> THEN st
    ELSE SetRecords(SetRecord(st, sector[1], props, groups, start_location, dirs_sectors_count),
                    Tail(sector), props, groups, start_location, dirs_sectors_count)

\* the end of one pass of the sector loop: path_groups.push(path_group)
SectorDone(acc, sector, st) ==
    [stack |-> st.stack,
     count_stack |-> st.count_stack,
     sectors |-> Append(acc.sectors, [sector EXCEPT !.entries = st.out]),
     path_groups |-> Append(acc.path_groups, st.path_group),
     panic |-> st.panic]

\* the "for (sector, props) in dirs_sectors" loop; acc = [stack, count_stack,
\* sectors, path_groups, panic]
RECURSIVE SetSectors(_, _, _, _, _)
SetSectors(acc, rest, groups, start_location, dirs_sectors_count) ==
    IF rest = <<>> \/ acc.panic THEN acc
    ELSE SetSectors(
           SectorDone(acc, rest[1],
                      SetRecords([stack |-> StackSet(acc.stack, groups, rest[1].props),
                                  count_stack |-> acc.count_stack,
                                  out |-> <<>>, path_group |-> <<>>, panic |-> FALSE],
                                 rest[1].entries, rest[1].props, groups, start_location,
                                 dirs_sectors_count)),
           Tail(rest), groups, start_location, dirs_sectors_count)

\* set_locations: the sectors with their final locations, and path_groups
set_locations(start_location, dirs_sectors) ==
    SetSectors([stack |-> <<>>,
                count_stack |-> [g \in 1..CountStackLen |-> 0],
                sectors |-> <<>>,
                path_groups |-> <<>>,
                panic |-> FALSE],
               dirs_sectors, GroupsNew(dirs_sectors), start_location, Len(dirs_sectors))

(***************************************************************************)
(* The path table (core.rs).                                               *)
(***************************************************************************)
\* IsoPathTableEntry::new
PathTableEntry(location, parent_directory, directory_id) ==
    [length |-> Len(directory_id) % U8,
     location |-> AsU32(location),
     parent |-> parent_directory % U16,
     directory_id |-> directory_id]

\* the entries pushed for one element of source, all with the same parent
SubfolderEntries(subfolders, parent_index) ==
    [k \in 1..Len(subfolders) |->
       PathTableEntry(subfolders[k][2], parent_index, subfolders[k][1])]

\* the "Process subfolders" loop: source[i + 1] is given the parent index
\* of folder_map[i] when there is one (folder_map[i] has index i + 2)
RECURSIVE SubfolderLoop(_, _, _)
SubfolderLoop(source, i, folder_count) ==
    IF i + 2 > Len(source) THEN <<>>
    ELSE (IF i < folder_count THEN SubfolderEntries(source[i + 2], i + 2) ELSE <<>>)
         \o SubfolderLoop(source, i + 1, folder_count)

\* IsoPathTable::new_l_table
new_l_table(source) ==
    <<PathTableEntry(StartLocation, 1, <<"NUL">>)>>
    \o SubfolderEntries(source[1], 1)
    \o SubfolderLoop(source, 0, Len(source[1]))

\* the byte length of IsoPathTable::as_vec
PathTableLen(table) ==
    SumSeq([k \in 1..Len(table) |->
              PathHeaderSize + Len(table[k].directory_id)
              + (IF table[k].length % 2 # 0 THEN 1 ELSE 0)])

(***************************************************************************)
(* IsoFileWriter::close (lib.rs): the regions written to the sink.         *)
(***************************************************************************)
ZeroRegion(size) == [kind |-> "zero", size |-> size]

\* the IsoHeader of close and its RootDirectoryEntry, as IsoHeaderRaw::write
\* emits them: one region of size_of::<IsoHeaderRaw>() = 2048 bytes
HeaderRegion(dirs_sectors, files_sectors, l_path_table_len) ==
    [kind |-> "pvd",
     size |-> HeaderRawSize,
     volume_space_size |-> AsU32(22 + Len(dirs_sectors) + Len(files_sectors)),
     volume_set_size |-> 1,
     volume_sequence_number |-> 1,
     logical_block_size |-> LOGICAL_BLOCK_SIZE,
     path_table_size |-> AsU32(l_path_table_len),
     loc_of_type_l_path_table |-> 19,
     loc_of_type_m_path_table |-> 21,
     root_location |-> AsU32(StartLocation),
     root_data_length |->
        AsU32(Cardinality({i \in 1..Len(dirs_sectors) : dirs_sectors[i].props.group_no = 0})
                * LOGICAL_BLOCK_SIZE),
     root_volume_seq |-> 1]

\* IsoHeaderRaw::terminator, written whole
TerminatorRegion == [kind |-> "term", size |-> HeaderRawSize]

\* l_path_table_buffer / m_path_table_buffer: two sectors holding the table
PathTableRegion(kind, table) ==
    [kind |-> kind, size |-> LOGICAL_BLOCK_SIZE * 2, entries |-> table]

\* how many records of a sector are written before "size -= entry.write()"
\* underflows: with overflow checks the subtraction panics right after the
\* first record that does not fit; without them size wraps and every record
\* is written before vec![0u8; size] panics
RECURSIVE WrittenBeforeUnderflow(_, _, _)
WrittenBeforeUnderflow(sector, k, size) ==
    IF k > Len(sector) THEN Len(sector)
    ELSE IF EntryWriteSize(sector[k]) > size THEN k
    ELSE WrittenBeforeUnderflow(sector, k + 1, size - EntryWriteSize(sector[k]))

\* one pass of the "save dirs sectors" loop: the region written for a sector
DirRegion(sector, overflow_checks) ==
    LET total == SumSeq([k \in 1..Len(sector.entries) |-> EntryWriteSize(sector.entries[k])])
    IN  IF total <= LOGICAL_BLOCK_SIZE
        THEN [kind |-> "dir", size |-> LOGICAL_BLOCK_SIZE, records |-> sector.entries,
              pad |-> LOGICAL_BLOCK_SIZE - total, panic |-> FALSE]
        ELSE LET n   == IF overflow_checks
                        THEN WrittenBeforeUnderflow(sector.entries, 1, LOGICAL_BLOCK_SIZE)
                        ELSE Len(sector.entries)
                 rec == SubSeq(sector.entries, 1, n)
             IN  [kind |-> "dir",
                  size |-> SumSeq([k \in 1..n |-> EntryWriteSize(rec[k])]),
                  records |-> rec, pad |-> 0, panic |-> TRUE]

\* the regions of the directory sectors, up to and including one that panics
RECURSIVE DirRegions(_, _)
DirRegions(dirs_sectors, overflow_checks) ==
    IF dirs_sectors = <<>> THEN <<>>
    ELSE LET r == DirRegion(dirs_sectors[1], overflow_checks)
         IN  IF r.panic THEN <<r>>
             ELSE <<r>> \o DirRegions(Tail(dirs_sectors), overflow_checks)

\* one pass of the "save files sectors" loop
FileRegion(sector) ==
    LET len == Min(sector.len, LOGICAL_BLOCK_SIZE)
    IN  [kind |-> "file", size |-> LOGICAL_BLOCK_SIZE,
         data |-> [id |-> sector.id, off |-> sector.off, len |-> len],
         pad |-> LOGICAL_BLOCK_SIZE - len]

\* the state of the planner close() leaves behind when it panics before
\* the path table is built
NoPlan(built) ==
    [built |-> built, dirs_sectors |-> <<>>, files_sectors |-> <<>>, path_groups |-> <<>>,
     l_path_table |-> <<>>]

\* the locals of close() once the path table is built
Plan(built, located, files_sectors, table) ==
    [built |-> built,
     dirs_sectors |-> located.sectors,
     files_sectors |-> files_sectors,
     path_groups |-> located.path_groups,
     l_path_table |-> table]

\* the writes of close() up to the path tables
HeadRegions(dirs_sectors, files_sectors, l_path_table_len) ==
    <<ZeroRegion(BootAreaSize),
      HeaderRegion(dirs_sectors, files_sectors, l_path_table_len),
      TerminatorRegion,
      ZeroRegion(LOGICAL_BLOCK_SIZE)>>

\* a variant of CloseWrites for comparison: file sectors before directories
CloseWritesFilesFirst(plan, head, l_len, dirs) ==
    IF l_len > 2 * LOGICAL_BLOCK_SIZE
    THEN [writes |-> head, result |-> "panic", flush |-> 0, plan |-> plan]
    ELSE [writes |-> head \o <<PathTableRegion("ltable", plan.l_path_table),
                               PathTableRegion("mtable", plan.l_path_table)>>
                     \o [k \in 1..Len(plan.files_sectors) |->
                           FileRegion(plan.files_sectors[k])]
                     \o dirs,
          result |-> IF dirs # <<>> /\ Last(dirs).panic THEN "panic" ELSE "ok",
          flush |-> IF dirs # <<>> /\ Last(dirs).panic THEN 0 ELSE 1,
          plan |-> plan]

\* close() from the first write on: the two asserts on the table length,
\* the directory sectors, the file sectors and the flush
CloseWrites(plan, head, l_len, dirs) ==
    IF l_len > 2 * LOGICAL_BLOCK_SIZE
    THEN [writes |-> head, result |-> "panic", flush |-> 0, plan |-> plan]
    ELSE IF dirs # <<>> /\ Last(dirs).panic
    THEN [writes |-> head \o <<PathTableRegion("ltable", plan.l_path_table),
                               PathTableRegion("mtable", plan.l_path_table)>> \o dirs,
          result |-> "panic", flush |-> 0, plan |-> plan]
    ELSE [writes |-> head \o <<PathTableRegion("ltable", plan.l_path_table),
                               PathTableRegion("mtable", plan.l_path_table)>> \o dirs
                     \o [k \in 1..Len(plan.files_sectors) |->
                           FileRegion(plan.files_sectors[k])],
          result |-> "ok", flush |-> 1, plan |-> plan]

\* close() after new_l_table
CloseTable(built, located, files_sectors, table, overflow_checks) ==
    CloseWrites(Plan(built, located, files_sectors, table),
                HeadRegions(located.sectors, files_sectors, PathTableLen(table)),
                PathTableLen(table),
                DirRegions(located.sectors, overflow_checks))

\* close() after set_locations, which panics on a failed expect
CloseLocated(built, located, files_sectors, overflow_checks) ==
    IF located.panic
    THEN [writes |-> <<>>, result |-> "panic", flush |-> 0, plan |-> NoPlan(built)]
    ELSE CloseTable(built, located, files_sectors,
                    new_l_table(located.path_groups), overflow_checks)

\* close() after build_sectors: with overflow checks the u8 overflow of
\* IsoDirectoryEntry::new has panicked inside it
CloseBuilt(acc, overflow_checks) ==
    IF overflow_checks
       /\ \E i \in 1..Len(acc.dirs_sectors) :
             \E k \in 1..Len(acc.dirs_sectors[i].entries) :
                acc.dirs_sectors[i].entries[k].ovf
    THEN [writes |-> <<>>, result |-> "panic", flush |-> 0, plan |-> NoPlan(<<>>)]
    ELSE CloseLocated(acc.dirs_sectors, set_locations(StartLocation, acc.dirs_sectors),
                      acc.files_sectors, overflow_checks)

\* close(): what it writes, how it ends, and the values of its locals.
\* overflow_checks is the build's choice for integer overflow: panic or wrap.
CloseRun(staged, overflow_checks) ==
    CloseBuilt(build_sectors([dirs_sectors |-> <<>>, files_sectors |-> <<>>, group_no |-> 0],
                             staged, 0, RootPath, FALSE),
               overflow_checks)

(***************************************************************************)
(* The byte source of the reader: the regions of the sink, addressed by    *)
(* byte offset.                                                            *)
(***************************************************************************)
TotalSize(image) == SumSeq([k \in 1..Len(image) |-> image[k].size])

\* the region holding the byte at offset and the offset inside it;
\* [index |-> 0] past the end of the image
RECURSIVE Locate(_, _, _)
Locate(image, k, offset) ==
    IF k > Len(image) THEN [index |-> 0, inner |-> 0]
    ELSE IF offset < image[k].size THEN [index |-> k, inner |-> offset]
    ELSE Locate(image, k + 1, offset - image[k].size)

\* the record of a directory region that starts at byte inner, 0 when inner
\* is where the records end, -1 when inner is inside a record
RECURSIVE RecordIndexAt(_, _, _)
RecordIndexAt(records, k, inner) ==
    IF k > Len(records) THEN (IF inner >= 0 THEN 0 ELSE -1)
    ELSE IF inner = 0 THEN k
    ELSE IF inner < EntryWriteSize(records[k]) THEN -1
    ELSE RecordIndexAt(records, k + 1, inner - EntryWriteSize(records[k]))

\* IsoDirectoryHeader::read after a seek to offset: a record, the empty
\* record of a zero-filled area, a failed read_exact, or bytes that are no
\* directory record at all
HeaderAt(image, offset) ==
    LET at == Locate(image, 1, offset)
        r  == image[at.index]
    IN  IF at.index = 0 \/ TotalSize(image) - offset < DirHeaderSize
        THEN [status |-> "eof"]
        ELSE CASE r.kind = "dir" ->
                  LET k == RecordIndexAt(r.records, 1, at.inner)
                  IN  IF k > 0 THEN [status |-> "record", record |-> r.records[k]]
                      ELSE IF k = 0 THEN [status |-> "empty"]
                      ELSE [status |-> "garbage"]
               [] r.kind = "zero" -> [status |-> "empty"]
               [] r.kind = "file" ->
                  IF at.inner >= r.data.len THEN [status |-> "empty"]
                  ELSE [status |-> "garbage"]
               [] OTHER -> [status |-> "garbage"]

(***************************************************************************)
(* IsoFileReader::read (lib.rs) and IsoDirectoryEntries::read (core.rs).   *)
(***************************************************************************)
\* BTreeMap::insert
MapInsert(map, key, value) ==
    [k \in (DOMAIN map) \cup {key} |-> IF k = key THEN value ELSE map[k]]

\* the key base.join(name) has in the BTreeMap of entries: PathBuf compares by
\* components, so joining "." or the empty string gives the key of base itself
JoinKey(base, name) ==
    IF name = <<>> \/ name = <<".">> THEN base ELSE Append(base, name)

\* IsoDirectoryEntries::read: the loop over the records at offset, recursing
\* into every Directory record; acc = [map, status, fuel].  fuel bounds the
\* number of records visited (a walk that exhausts it has met a cycle).
RECURSIVE ReadEntries(_, _, _, _)
ReadEntries(image, acc, base, offset) ==
    IF acc.status # "ok" THEN acc
    ELSE IF acc.fuel = 0 THEN [acc EXCEPT !.status = "garbage"]
    ELSE LET h == HeaderAt(image, offset)
         IN  CASE h.status = "eof" -> [acc EXCEPT !.status = "io_error"]
               [] h.status = "garbage" -> [acc EXCEPT !.status = "garbage"]
               [] h.status = "empty" -> acc
               [] h.status = "record" ->
                  IF h.record.length = 0 THEN acc
                  ELSE LET id    == Take(EntryName(h.record.entry), h.record.id_len)
                           entry == EntryFromBytes(id)
                           value == [h.record EXCEPT !.entry = entry,
                                                     !.is_odd = (h.record.id_len % 2 # 0)]
                           next  == offset + h.record.length
                           acc1  == [acc EXCEPT !.fuel = @ - 1]
                       IN  CASE entry.kind = "cur" ->
                                ReadEntries(image,
                                    [acc1 EXCEPT !.map = MapInsert(@, JoinKey(base, <<".">>), value)],
                                    base, next)
                             [] entry.kind = "par" ->
                                ReadEntries(image,
                                    [acc1 EXCEPT !.map = MapInsert(@, Append(base, <<".", ".">>), value)],
                                    base, next)
                             [] entry.kind = "file" ->
                                ReadEntries(image,
                                    [acc1 EXCEPT !.map = MapInsert(@, JoinKey(base, entry.name), value)],
                                    base, next)
                             [] entry.kind = "dir" ->
                                ReadEntries(image,
                                    ReadEntries(image, acc1, JoinKey(base, entry.name),
                                                h.record.location * LOGICAL_BLOCK_SIZE),
                                    base, next)

\* IsoPathTable::read_l_table: the entries up to the first of length 0
RECURSIVE ReadLTableEntries(_)
ReadLTableEntries(entries) ==
    IF entries = <<>> \/ entries[1].length = 0 THEN <<>>
    ELSE <<entries[1]>> \o ReadLTableEntries(Tail(entries))

\* IsoFileReader::read over the bytes of image
ReaderRead(image) ==
    LET hat == Locate(image, 1, BootAreaSize)
        hdr == image[hat.index]
        none == [status |-> "io_error", header |-> <<>>, path_table |-> <<>>,
                 entries |-> <<>>]
    IN  IF hat.index = 0 \/ TotalSize(image) - BootAreaSize < LOGICAL_BLOCK_SIZE
        THEN none
        ELSE IF hat.inner # 0 \/ hdr.kind # "pvd"
        THEN [none EXCEPT !.status = "garbage"]
        ELSE LET lat == Locate(image, 1, hdr.loc_of_type_l_path_table * hdr.logical_block_size)
                 lt  == image[lat.index]
             IN  IF lat.index = 0 THEN none
                 ELSE IF lat.inner # 0 \/ lt.kind # "ltable"
                         \/ PathTableLen(lt.entries) >= lt.size
                 THEN [none EXCEPT !.status = "garbage"]
                 ELSE LET walk == ReadEntries(image,
                                     [map |-> <<>>, status |-> "ok",
                                      fuel |-> 4 * Len(image) + 64],
                                     <<>>, hdr.root_location * hdr.logical_block_size)
                      IN  [status |-> walk.status,
                           header |-> hdr,
                           path_table |-> ReadLTableEntries(lt.entries),
                           entries |-> walk.map]

(***************************************************************************)
(* IsoFileReader::read_file (lib.rs).                                      *)
(***************************************************************************)
\* the n bytes at offset, as a sequence of segments: a slice of a staged
\* buffer, a run of zeros, or bytes of another structure
RECURSIVE BytesAt(_, _, _)
BytesAt(image, offset, n) ==
    IF n = 0 THEN <<>>
    ELSE LET at == Locate(image, 1, offset)
             r  == image[at.index]
             data == r.kind = "file" /\ at.inner < r.data.len
             take == IF data THEN Min(n, r.data.len - at.inner)
                     ELSE Min(n, r.size - at.inner)
             seg  == IF data
                     THEN [kind |-> "data", id |-> r.data.id, off |-> r.data.off + at.inner,
                           len |-> take]
                     ELSE IF r.kind \in {"file", "zero"}
                     THEN [kind |-> "zero", id |-> "", off |-> 0, len |-> take]
                     ELSE [kind |-> "other", id |-> "", off |-> offset, len |-> take]
         IN  <<seg>> \o BytesAt(image, offset + take, n - take)

\* adjacent segments that continue one another are one segment
RECURSIVE Merge(_)
Merge(segs) ==
    IF Len(segs) < 2 THEN segs
    ELSE LET a == segs[1]
             b == segs[2]
         IN  IF a.kind = "data" /\ b.kind = "data" /\ a.id = b.id /\ a.off + a.len = b.off
             THEN Merge(<<[a EXCEPT !.len = a.len + b.len]>> \o SubSeq(segs, 3, Len(segs)))
             ELSE <<a>> \o Merge(Tail(segs))

\* the bytes of a staged content, in the same form
ContentBytes(content) ==
    IF content.len = 0 THEN <<>>
    ELSE <<[kind |-> "data", id |-> content.id, off |-> content.off, len |-> content.len]>>

\* read_file(path) on a reader with the given entries, over image
ReadFile(image, entries, path) ==
    IF path \notin DOMAIN entries THEN [status |-> "FileNotFound", bytes |-> <<>>]
    ELSE LET value == entries[path]
         IN  CASE value.entry.kind = "cur" -> [status |-> "EntryCurrentDirectory", bytes |-> <<>>]
               [] value.entry.kind = "par" -> [status |-> "EntryParentDirectory", bytes |-> <<>>]
               [] value.entry.kind = "dir" -> [status |-> "unreachable", bytes |-> <<>>]
               [] value.entry.kind = "file" ->
                  LET offset == AsU32(value.location * LOGICAL_BLOCK_SIZE)
                  IN  IF value.data_length > 0
                         /\ offset + value.data_length > TotalSize(image)
                      THEN [status |-> "StdIo", bytes |-> <<>>]
                      ELSE [status |-> "Ok",
                            bytes |-> Merge(BytesAt(image, offset, value.data_length))]

(***************************************************************************)
(* The inputs of the exploration.                                          *)
(***************************************************************************)
\* a caller's buffer of len bytes
Buffer(id, len) == [id |-> id, off |-> 0, len |-> len]

\* a name of n characters
LongName(n) == [i \in 1..n |-> "X"]

\* short names: nested directories, sibling subtrees, files of 0, 1, 2 and 3
\* sectors, a lower-case path and a directory whose name contains ";1"
ShortInputs ==
    { [path |-> <<"/","A","/","B","/","C","/","D">>, content |-> Buffer("b1", 5), timestamp |-> 2024],
      [path |-> <<"/","A","/","B","/","X">>, content |-> Buffer("b2", 2048), timestamp |-> 2024],
      [path |-> <<"/","E","/","F","/","Y">>, content |-> Buffer("b3", 0), timestamp |-> 2024],
      [path |-> <<"/","G","/","Z">>, content |-> Buffer("b4", 4097), timestamp |-> 2024],
      [path |-> <<"/","H","/","Z">>, content |-> Buffer("b1", 5), timestamp |-> 2024],
      [path |-> <<"/","h","e","l","l","o",".","t","x","t">>, content |-> Buffer("b5", 13),
       timestamp |-> 2024],
      [path |-> <<"/","D",";","1","/","X">>, content |-> Buffer("b6", 1), timestamp |-> 2024] }

\* the first characters of the long file names
LongInitials == <<"0", "1", "2", "3", "4", "5", "6", "7", "8", "9">>

\* long names under the directory parent (a raw path ending in '/'):
\* LongFileCount files whose records take 254 bytes, eight of which overflow
\* a sector; a file name of 220 characters, whose record length overflows a
\* byte; and a file in a subdirectory
LongInputs(parent) ==
    [k \in 1..LongFileCount |->
       [path |-> parent \o <<LongInitials[k]>> \o LongName(218),
        content |-> Buffer(LongInitials[k], k), timestamp |-> 2024]]
    \o << [path |-> parent \o LongName(220), content |-> Buffer("b2", 2048),
           timestamp |-> 2024],
          [path |-> parent \o <<"S", "/", "Y">>, content |-> Buffer("b3", 1),
           timestamp |-> 2024] >>

\* the directories the long names are staged in: the root and /D
LongParents == {<<"/">>, <<"/", "D", "/">>}

\* the first characters of the wide directory names
WideInitials ==
    <<"A", "B", "C", "D", "E", "F", "G", "H", "I", "J", "K", "L", "M", "N", "O", "P", "Q",
      "R", "S", "T">>

\* WideDirCount first-level directories with names of 221 characters (a
\* Directory record of 254 bytes), one file in each
WideInputs ==
    [k \in 1..WideDirCount |->
       [path |-> <<"/", WideInitials[k]>> \o LongName(220) \o <<"/", "F">>,
        content |-> Buffer("b1", 5), timestamp |-> 2024]]

Inputs ==
    ShortInputs
    \cup UNION {{LongInputs(p)[k] : k \in 1..Len(LongInputs(p))} : p \in LongParents}
    \cup {WideInputs[k] : k \in 1..WideDirCount}

\* the FileEntry append_file pushes for an input
Staged(inp) ==
    [path |-> NormalizePath(inp.path), content |-> inp.content, timestamp |-> inp.timestamp]

\* Staged, tabulated over the inputs
StagedOf == [inp \in Inputs |-> Staged(inp)]

ShortStaged == {StagedOf[inp] : inp \in ShortInputs}

\* for each directory of LongParents, its long-name inputs as staged
LongStaged ==
    {[k \in 1..(LongFileCount + 2) |-> StagedOf[LongInputs(p)[k]]] : p \in LongParents}

\* the wide inputs as staged
WideStaged == [k \in 1..WideDirCount |-> StagedOf[WideInputs[k]]]

\* staged is made of elements of seq, in the order of seq, each at most once
IsSubsequence(staged, seq) ==
    /\ \A i \in 1..Len(staged) : \E k \in 1..Len(seq) : seq[k] = staged[i]
    /\ \A i, j \in 1..Len(staged) :
          i < j => (CHOOSE k \in 1..Len(seq) : seq[k] = staged[i])
                     < (CHOOSE k \in 1..Len(seq) : seq[k] = staged[j])

\* a run stages up to MaxFiles short-name inputs in any order, repeats
\* included, or long-name inputs of one directory in the order of LongInputs,
\* or the first wide inputs
WithinBounds(staged) ==
    \/ Len(staged) <= MaxFiles /\ \A i \in 1..Len(staged) : staged[i] \in ShortStaged
    \/ \E seq \in LongStaged : IsSubsequence(staged, seq)
    \/ IsPrefix(staged, WideStaged)

\* raw paths for append_file: lower case, characters outside the a-character
\* set, a component longer than 222 characters, repeated and trailing
\* separators, a relative path, the empty path, three levels, a backslash,
\* the root itself and a file named like a directory of another path
RawPaths ==
    { <<"/", "f", "o", "o", "+", "b", "a", "r", ".", "t", "x", "t">>,
      <<"/", "a", " ", "b", "#", "c", "/", "d", "~", "e", ".", "t", "x", "t">>,
      <<"/">> \o [i \in 1..230 |-> "x"] \o <<"/", "y">>,
      <<"/", "/", "d", "i", "r", "/", "/", "f", "i", "l", "e", "/">>,
      <<"r", "e", "l", "/", "f", "i", "l", "e">>,
      <<"/", "A", "_", "1", "/", "B", "-", "2", ".", "C", ";", "1">>,
      <<>>,
      <<"/", "[", "x", "]", "{", "y", "}">>,
      [i \in 1..223 |-> "z"] \o <<".", "t", "x", "t">>,
      <<"/", "F", "O", "O", "+", "B", "A", "R", ".", "T", "X", "T">>,
      <<"/", "q", ".", "r", "/", "s", "-", "T", "/", "9", "?", "u">>,
      <<"/", "0", "\\", "1", ":", "2">>,
      <<"/">>,
      <<"/", "A", "_", "1">> }

RawInputs ==
    {[path |-> p, content |-> Buffer("b7", 7), timestamp |-> 1999] : p \in RawPaths}

(***************************************************************************)
(* The state machine.                                                      *)
(***************************************************************************)
VARIABLES
    files,        \* IsoFileWriter.files
    sink,         \* the regions written to IsoFileWriter.writer so far
    flushes,      \* the number of flush() calls on the sink
    result,       \* how the last close() ended: "none" before the first,
                  \* then "ok", "panic" or "StdIo"
    plan,         \* the locals of the last close(): sectors, path groups, table
    reader,       \* the IsoFileReader opened over the sink, status "none" before
    last_read,    \* the last read_file call: its path and what it returned
    closes,       \* the number of close() calls so far
    closed_files, \* files.len() at the last close()
    last_append   \* the arguments of the last append_file call

vars == <<files, sink, flushes, result, plan, reader, last_read, closes, closed_files,
          last_append>>

NoReader == [status |-> "none", header |-> <<>>, path_table |-> <<>>, entries |-> <<>>]

NoRead == [path |-> <<>>, status |-> "none", bytes |-> <<>>]

NoAppend == [path |-> <<>>, content |-> Buffer("", 0), timestamp |-> 0]

\* IsoFileWriter::new
Init ==
    /\ files = <<>>
    /\ sink = <<>>
    /\ flushes = 0
    /\ result = "none"
    /\ plan = NoPlan(<<>>)
    /\ reader = NoReader
    /\ last_read = NoRead
    /\ closes = 0
    /\ closed_files = 0
    /\ last_append = NoAppend

\* the writer is still there: close() takes &mut self, so only a panic ends it
WriterAlive == result # "panic"

\* self.files.push(FileEntry { .. })
Stage(inp, entry) ==
    /\ WriterAlive
    /\ files' = Append(files, entry)
    /\ last_append' = inp
    /\ UNCHANGED <<sink, flushes, result, plan, reader, last_read, closes, closed_files>>

\* IsoFileWriter::append_file
AppendFile(inp) ==
    /\ WithinBounds(Append(files, StagedOf[inp]))
    /\ closes > 0 => Len(files) < MaxReused
    /\ Stage(inp, StagedOf[inp])

\* IsoFileWriter::append_file with a raw path
AppendRaw(inp) ==
    /\ Len(files) < MaxRawAppends
    /\ Stage(inp, Staged(inp))

\* a variant of FailAt for comparison: the failed write is skipped and the
\* writes after it are still issued
FailAtSkipping(run, fail, torn) ==
    IF fail = 0 THEN run
    ELSE IF fail <= Len(run.writes)
    THEN [run EXCEPT !.writes = SubSeq(run.writes, 1, fail - 1)
                                  \o SubSeq(run.writes, fail + 1, Len(run.writes)),
                     !.result = "StdIo",
                     !.flush = 0]
    ELSE [run EXCEPT !.result = "StdIo"]

\* a write or flush that returns Err: "?" makes close() return it at once.
\* fail = 0: the sink never fails; fail = k: its k-th write fails, leaving
\* torn bytes of it; fail = Len(writes) + 1: the flush fails.
FailAt(run, fail, torn) ==
    IF fail = 0 THEN run
    ELSE IF fail <= Len(run.writes)
    THEN [run EXCEPT !.writes = SubSeq(run.writes, 1, fail - 1)
                                  \o (IF torn > 0 THEN <<[kind |-> "torn", size |-> torn]>>
                                      ELSE <<>>),
                     !.result = "StdIo",
                     !.flush = 0]
    ELSE [run EXCEPT !.result = "StdIo"]

\* where the sink may fail during a run: nowhere, at one of its writes, or
\* at the flush of a run that reaches it
FailPoints(run) ==
    {0} \cup (IF Len(files) <= MaxFilesFailing /\ closes < MaxFailingCloses
              THEN 1..(Len(run.writes) + run.flush)
              ELSE {})

\* the sink receives what one close() wrote
SinkWrites(run) ==
    /\ sink' = sink \o run.writes
    /\ flushes' = flushes + run.flush
    /\ result' = run.result
    /\ plan' = run.plan

\* IsoFileWriter::close
Close ==
    /\ WriterAlive
    /\ closes < MaxCloses
    /\ closes > 0 => Len(files) <= MaxReused
    /\ \E overflow_checks \in BOOLEAN :
          \E run \in {CloseRun(files, overflow_checks)} :
             \E fail \in FailPoints(run) :
                \E torn \in (IF fail = 0 \/ fail > Len(run.writes) THEN {0} ELSE 0..TornSize) :
                   SinkWrites(FailAt(run, fail, torn))
    /\ closes' = closes + 1
    /\ closed_files' = Len(files)
    /\ UNCHANGED <<files, reader, last_read, last_append>>

\* IsoFileReader::read on the bytes of the sink
Read ==
    /\ result # "none"
    /\ reader.status = "none"
    /\ reader' = ReaderRead(sink)
    /\ UNCHANGED <<files, sink, flushes, result, plan, last_read, closes, closed_files,
                   last_append>>

\* the paths read_file is called with: every prefix of a staged path, the
\* "." and ".." below it, and a path that was never staged
QueryPaths ==
    UNION {{SubSeq(files[i].path.comps, 1, n) : n \in 0..Len(files[i].path.comps)} :
             i \in 1..Len(files)}
    \cup {<<<<".", ".">>>>, <<<<"N", "O">>>>}

\* IsoFileReader::read_file; a run calls it once, since the call changes
\* nothing a later call reads
ReadFileCall(path) ==
    /\ reader.status = "ok"
    /\ last_read.status = "none"
    /\ \E r \in {ReadFile(sink, reader.entries, path)} :
          last_read' = [path |-> path, status |-> r.status, bytes |-> r.bytes]
    /\ UNCHANGED <<files, sink, flushes, result, plan, reader, closes, closed_files,
                   last_append>>

Next ==
    \/ \E inp \in Inputs : AppendFile(inp)
    \/ Close
    \/ Read
    \/ \E path \in QueryPaths : ReadFileCall(path)

Spec == Init /\ [][Next]_vars

\* append_file alone, over the raw paths
NextAppend == \E inp \in RawInputs : AppendRaw(inp)

SpecAppend == Init /\ [][NextAppend]_vars

\* append_file over the raw paths, and close()
NextRaw == NextAppend \/ Close

SpecRaw == Init /\ [][NextRaw]_vars

\* the path of the directory at depth d of a chain of directories named D
ChainDir(d) == [abs |-> TRUE, comps |-> [i \in 1..d |-> <<"D">>]]

\* the file staged below a chain of n nested directories: /D/../D/F
ChainStaged(n) ==
    [path |-> Join(ChainDir(n), <<"F">>), content |-> Buffer("b1", 5), timestamp |-> 2024]

\* what build_sectors returns for <<ChainStaged(n)>>: one sector per
\* directory, group d at depth d holding ".", ".." and the record of the
\* next directory, the last one the File record
ChainBuilt(n) ==
    [dirs_sectors |->
        [i \in 1..(n + 1) |->
           [entries |-> <<NewEntry(0, 0, NowYear, CurrentDirectory),
                          NewEntry(0, 0, NowYear, ParentDirectory),
                          IF i <= n THEN NewEntry(0, 0, NowYear, Directory(<<"D">>))
                          ELSE NewEntry(0, 5, 2024, File(<<"F">>))>>,
            props |-> [group_no |-> i - 1, depth |-> i - 1],
            base |-> ChainDir(i - 1)]],
     files_sectors |-> Chunks(Buffer("b1", 5)),
     group_no |-> n + 1]

\* the planning half of close() for a writer holding <<ChainStaged(n)>>:
\* set_locations applied to the sectors of Pass 1
PlanChain(n) ==
    /\ files = <<>>
    /\ closes = 0
    /\ \E built \in {ChainBuilt(n)} :
          \E located \in {set_locations(StartLocation, built.dirs_sectors)} :
             plan' = IF located.panic THEN NoPlan(built.dirs_sectors)
                     ELSE Plan(built.dirs_sectors, located, built.files_sectors, <<>>)
    /\ files' = <<ChainStaged(n)>>
    /\ closed_files' = 1
    /\ UNCHANGED <<sink, flushes, result, reader, last_read, closes, last_append>>

NextChain == \E n \in 1..MaxChainDirs : PlanChain(n)

SpecChain == Init /\ [][NextChain]_vars

\* timestamps of every year from YearFirst to YearLast on one short path
YearInputs ==
    {[path |-> <<"/", "Y">>, content |-> Buffer("b7", 7), timestamp |-> y] :
       y \in YearFirst..YearLast}

\* append_file of one file with a timestamp of any of these years
AppendYear(inp) ==
    /\ Len(files) < MaxYearAppends
    /\ Stage(inp, Staged(inp))

\* one file of any year staged and written
NextYears == (\E inp \in YearInputs : AppendYear(inp)) \/ Close

SpecYears == Init /\ [][NextYears]_vars

(***************************************************************************)
(* What the staged files say the image should hold, computed from files    *)
(* alone, and where the plan of close() put it.                            *)
(***************************************************************************)
\* the directories of the staged tree: the root and every proper prefix of
\* an absolute staged path
StagedDirs ==
    {<<>>} \cup UNION {{SubSeq(files[i].path.comps, 1, n) :
                          n \in 0..(Len(files[i].path.comps) - 1)} :
                       i \in {j \in 1..Len(files) : files[j].path.abs}}

\* the names of the files staged directly in directory dir, in append order
StagedFileNames(dir) ==
    LET sel == SelectSeq(files, LAMBDA f :
                   f.path.abs /\ f.path.comps # <<>> /\ Front(f.path.comps) = dir)
    IN  [k \in 1..Len(sel) |-> Last(sel[k].path.comps)]

\* the names of the subdirectories of dir, in order of first appearance
StagedDirNames(dir) ==
    LET sel   == SelectSeq(files, LAMBDA f :
                     f.path.abs /\ IsPrefix(dir, f.path.comps)
                     /\ Len(f.path.comps) >= Len(dir) + 2)
        names == [k \in 1..Len(sel) |-> sel[k].path.comps[Len(dir) + 1]]
        first == SelectSeq([k \in 1..Len(names) |-> k],
                           LAMBDA k : \A j \in 1..(k - 1) : names[j] # names[k])
    IN  [k \in 1..Len(first) |-> names[first[k]]]

\* the indices of the sectors built for directory dir
SectorsOf(secs, dir) == {i \in 1..Len(secs) : secs[i].base.comps = dir}

\* the index of the first of them
FirstSector(secs, dir) ==
    CHOOSE i \in SectorsOf(secs, dir) : \A j \in SectorsOf(secs, dir) : i <= j

\* the LBA of directory dir, and the byte length of its extent
DirLBA(secs, dir) == StartLocation + FirstSector(secs, dir) - 1

DirBytes(secs, dir) == Cardinality(SectorsOf(secs, dir)) * LOGICAL_BLOCK_SIZE

\* the records of directory dir over all its sectors, in order
RecordsOf(secs, dir) ==
    Flatten([k \in 1..Len(secs) |->
               IF secs[k].base.comps = dir THEN secs[k].entries ELSE <<>>])

\* the sector count of a content of len bytes
SectorsFor(len) == (len + LOGICAL_BLOCK_SIZE - 1) \div LOGICAL_BLOCK_SIZE

\* the File records of the plan in planner order, each with its directory
FileRecords(secs) ==
    Flatten([i \in 1..Len(secs) |->
               LET fs == SelectSeq(secs[i].entries, LAMBDA e : e.entry.kind = "file")
               IN  [k \in 1..Len(fs) |-> [rec |-> fs[k], dir |-> secs[i].base.comps]]])

\* the byte offset of region k of the sink
RegionOffset(k) == SumSeq([j \in 1..(k - 1) |-> sink[j].size])

\* close() has been called once on the writer
FirstClose == closes = 1

\* no file has been staged since the last close(): plan is the plan of files
NothingStagedSince == Len(files) = closed_files

\* the staged paths are absolute and pairwise distinct
DistinctAbsolutePaths ==
    /\ \A i \in 1..Len(files) : files[i].path.abs
    /\ \A i, j \in 1..Len(files) : i # j => files[i].path # files[j].path

(***************************************************************************)
(* The claims.                                                             *)
(***************************************************************************)
\* C1: round trip.  For staged files with distinct absolute paths, the image
\* the close() of the writer wrote with Ok, opened with IsoFileReader::read,
\* has an entry for every staged path, and read_file on it returns the
\* staged bytes.
C1_RoundTrip ==
    (result = "ok" /\ FirstClose /\ NothingStagedSince /\ reader.status # "none"
     /\ DistinctAbsolutePaths) =>
        /\ reader.status = "ok"
        /\ \A i \in 1..Len(files) :
              /\ files[i].path.comps \in DOMAIN reader.entries
              /\ ReadFile(sink, reader.entries, files[i].path.comps)
                   = [status |-> "Ok", bytes |-> ContentBytes(files[i].content)]

\* C2: the bytes a close() that returns Ok writes to an empty sink are
\* (22 + D + S) * 2048, D directory sectors and S file-extent sectors: the
\* volume_space_size of the PVD times 2048.
C2_ImageLength ==
    (result = "ok" /\ FirstClose) =>
        /\ TotalSize(sink)
             = (22 + Len(plan.dirs_sectors) + Len(plan.files_sectors)) * LOGICAL_BLOCK_SIZE
        /\ TotalSize(sink) = sink[2].volume_space_size * LOGICAL_BLOCK_SIZE

\* C3: after set_locations the ".." record of every directory holds the LBA
\* and the byte length of its parent directory's group; the root's ".."
\* holds the root's own.
C3_ParentRecord ==
    \A dir \in {plan.dirs_sectors[i].base.comps : i \in 1..Len(plan.dirs_sectors)} :
        LET parent == IF dir = <<>> THEN <<>> ELSE Front(dir)
            dotdot == RecordsOf(plan.dirs_sectors, dir)[2]
        IN  /\ dotdot.entry.kind = "par"
            /\ dotdot.location = DirLBA(plan.dirs_sectors, parent)
            /\ dotdot.data_length = DirBytes(plan.dirs_sectors, parent)

\* C4: the L path table close() builds has exactly one entry for every
\* directory of the tree staged at that close(), the root included, and no
\* other entry.
C4_PathTableComplete ==
    (plan.l_path_table # <<>> /\ NothingStagedSince) =>
        /\ Len(plan.l_path_table) = Cardinality(StagedDirs)
        /\ \A dir \in StagedDirs :
              \E k \in 1..Len(plan.l_path_table) :
                 /\ plan.l_path_table[k].location = DirLBA(plan.dirs_sectors, dir)
                 /\ plan.l_path_table[k].directory_id
                      = (IF dir = <<>> THEN <<"NUL">> ELSE Last(dir))

\* C5: the parent number of every non-root entry of the L path table close()
\* builds from the staged files is the 1-based position, in the table, of
\* the entry of the directory holding the entry's directory; the entry's
\* LBA is its own directory's.
C5_PathTableParent ==
    NothingStagedSince =>
    \A k \in 2..Len(plan.l_path_table) :
        LET e == plan.l_path_table[k]
        IN  \E dir \in StagedDirs \ {<<>>} :
               /\ e.directory_id = Last(dir)
               /\ e.location = DirLBA(plan.dirs_sectors, dir)
               /\ e.parent \in 1..Len(plan.l_path_table)
               /\ plan.l_path_table[e.parent].location
                    = DirLBA(plan.dirs_sectors, Front(dir))

\* the depth of the directory a path-table entry points at
EntryDepth(e) == plan.dirs_sectors[e.location - StartLocation + 1].props.depth

\* C6: entry 1 of the L path table is the root ("\0", parent 1, LBA 23) and
\* the other entries follow in non-decreasing order of directory depth.
C6_PathTableOrder ==
    plan.l_path_table # <<>> =>
        /\ plan.l_path_table[1].directory_id = <<"NUL">>
        /\ plan.l_path_table[1].parent = 1
        /\ plan.l_path_table[1].location = 23
        /\ \A j, k \in 2..Len(plan.l_path_table) :
              j < k => EntryDepth(plan.l_path_table[j]) <= EntryDepth(plan.l_path_table[k])

\* the bytes the records of a sector take on disk
SectorBytes(sector) ==
    SumSeq([k \in 1..Len(sector.entries) |-> EntryWriteSize(sector.entries[k])])

\* C7: in every directory sector of build_dirs the records take at most 2048
\* bytes on disk; a sector is followed by another of its group, with the
\* same (group_no, depth), exactly when its next record would not fit.
C7_SectorPacking ==
    /\ \A i \in 1..Len(plan.built) : SectorBytes(plan.built[i]) <= LOGICAL_BLOCK_SIZE
    /\ \A i \in 1..(Len(plan.built) - 1) :
          plan.built[i].base = plan.built[i + 1].base =>
             /\ plan.built[i].props = plan.built[i + 1].props
             /\ SectorBytes(plan.built[i]) + EntryWriteSize(plan.built[i + 1].entries[1])
                  > LOGICAL_BLOCK_SIZE

\* C8: the records close() plans for every directory of the staged files
\* are ".", "..", then its files in append order, then its subdirectories
\* in order of first appearance; the first sector of the group starts with
\* "." and "..".
C8_RecordOrder ==
    NothingStagedSince =>
    \A dir \in {plan.built[i].base.comps : i \in 1..Len(plan.built)} :
        LET recs  == RecordsOf(plan.built, dir)
            fnames == StagedFileNames(dir)
            dnames == StagedDirNames(dir)
            first == plan.built[FirstSector(plan.built, dir)].entries
        IN  /\ [k \in 1..Len(recs) |-> recs[k].entry]
                 = <<CurrentDirectory, ParentDirectory>>
                   \o [k \in 1..Len(fnames) |-> File(fnames[k])]
                   \o [k \in 1..Len(dnames) |-> Directory(dnames[k])]
            /\ Len(first) >= 2
            /\ first[1].entry = CurrentDirectory
            /\ first[2].entry = ParentDirectory

\* a directory of two sectors holding files and a subdirectory
C8_Witness ==
    /\ result = "ok"
    /\ \E dir \in {plan.built[i].base.comps : i \in 1..Len(plan.built)} :
          /\ Cardinality(SectorsOf(plan.built, dir)) = 2
          /\ Len(StagedFileNames(dir)) >= 2
          /\ Len(StagedDirNames(dir)) >= 1

\* C9: after set_locations every Directory(name) record of directory P holds
\* the LBA and the byte length of the group built for P/name, the same as
\* the "." record of P/name.
C9_DirectoryRecord ==
    \A i \in 1..Len(plan.dirs_sectors) :
        \A k \in 1..Len(plan.dirs_sectors[i].entries) :
            LET r     == plan.dirs_sectors[i].entries[k]
                child == Append(plan.dirs_sectors[i].base.comps, r.entry.name)
            IN  r.entry.kind = "dir" =>
                   /\ SectorsOf(plan.dirs_sectors, child) # {}
                   /\ r.location = DirLBA(plan.dirs_sectors, child)
                   /\ r.data_length = DirBytes(plan.dirs_sectors, child)
                   /\ LET dot == RecordsOf(plan.dirs_sectors, child)[1]
                      IN  /\ dot.entry.kind = "cur"
                          /\ dot.location = r.location
                          /\ dot.data_length = r.data_length

\* the root holds two subdirectories and the first has one of its own, so
\* resolving the second skips a deeper group
C9_Witness ==
    /\ result = "ok"
    /\ Len(StagedDirNames(<<>>)) >= 2
    /\ StagedDirNames(<<StagedDirNames(<<>>)[1]>>) # <<>>

\* the number of file-extent sectors of the File records before record n
SectorsBefore(frecs, n) ==
    SumSeq([j \in 1..(n - 1) |-> SectorsFor(frecs[j].rec.data_length)])

\* C10: the LBA of every File record is 23 + D + k, k the number of
\* file-extent sectors before the file's first chunk, and LBA * 2048 is the
\* offset, in the stream a close() that returns Ok wrote to an empty sink,
\* of the first byte of the file's content.
C10_FileLocation ==
    LET frecs == FileRecords(plan.dirs_sectors)
        D     == Len(plan.dirs_sectors)
    IN  \A n \in 1..Len(frecs) :
           LET r == frecs[n].rec
               k == SectorsBefore(frecs, n)
           IN  /\ r.location = 23 + D + k
               /\ (result = "ok" /\ FirstClose /\ r.data_length > 0) =>
                     \E j \in 1..Len(sink) :
                        /\ sink[j].kind = "file"
                        /\ RegionOffset(j) = r.location * LOGICAL_BLOCK_SIZE
                        /\ sink[j].data.off = 0
                        /\ \E i \in 1..Len(files) :
                              /\ files[i].path.comps = Append(frecs[n].dir, r.entry.name)
                              /\ files[i].content.id = sink[j].data.id
                              /\ files[i].content.len = r.data_length

\* an image with two directory sectors or more and a file stored after
\* the sectors of another file
C10_Witness ==
    /\ result = "ok"
    /\ Len(plan.dirs_sectors) >= 2
    /\ \E n \in 2..Len(FileRecords(plan.dirs_sectors)) :
          /\ FileRecords(plan.dirs_sectors)[n].rec.data_length > 0
          /\ SectorsBefore(FileRecords(plan.dirs_sectors), n) >= 2

\* the number of bytes of a sequence of segments
SegmentBytes(segs) == SumSeq([k \in 1..Len(segs) |-> segs[k].len])

\* C11: the data_length of every File record is the byte length of the
\* staged content, not rounded up to whole sectors, and on the image of a
\* close() that returned Ok a read_file that succeeds returns data_length
\* bytes, all of them content and none of them the zero padding of a sector.
C11_ExactLength ==
    /\ NothingStagedSince =>
         \A n \in 1..Len(FileRecords(plan.dirs_sectors)) :
            LET fr == FileRecords(plan.dirs_sectors)[n]
            IN  \E i \in 1..Len(files) :
                   /\ files[i].path.comps = Append(fr.dir, fr.rec.entry.name)
                   /\ fr.rec.data_length = files[i].content.len
    /\ (result = "ok" /\ FirstClose /\ last_read.status = "Ok") =>
         /\ SegmentBytes(last_read.bytes) = reader.entries[last_read.path].data_length
         /\ \A k \in 1..Len(last_read.bytes) : last_read.bytes[k].kind = "data"

\* a file of two sectors and one byte was read back
C11_Witness ==
    /\ result = "ok"
    /\ FirstClose
    /\ last_read.status = "Ok"
    /\ SegmentBytes(last_read.bytes) > LOGICAL_BLOCK_SIZE
    /\ SegmentBytes(last_read.bytes) % LOGICAL_BLOCK_SIZE # 0

\* the staged files that get a File record: absolute paths below the root
StagedWithRecord ==
    SelectSeq(files, LAMBDA f : f.path.abs /\ f.path.comps # <<>>)

\* C12: a staged file of n bytes adds ceil(n / 2048) entries to the list of
\* file-extent sectors, right after those of the File records before it:
\* none when n = 0, though the File record is there with data_length 0, and
\* n / 2048 full ones when n is a multiple of 2048.
C12_SectorCount ==
    (NothingStagedSince /\ plan.dirs_sectors # <<>>) =>
       LET frecs == FileRecords(plan.built)
           fs    == plan.files_sectors
       IN  /\ Len(frecs) = Len(StagedWithRecord)
           /\ Len(fs) = SumSeq([i \in 1..Len(StagedWithRecord) |->
                                  SectorsFor(StagedWithRecord[i].content.len)])
           /\ \A n \in 1..Len(frecs) :
                 LET first == frecs[n].rec.location
                     bytes == frecs[n].rec.data_length
                     count == SectorsFor(bytes)
                 IN  /\ first + count
                          = (IF n < Len(frecs) THEN frecs[n + 1].rec.location ELSE Len(fs))
                     /\ \A j \in 1..count :
                           /\ fs[first + j].off = (j - 1) * LOGICAL_BLOCK_SIZE
                           /\ fs[first + j].len
                                = (IF j < count THEN LOGICAL_BLOCK_SIZE
                                   ELSE bytes - (count - 1) * LOGICAL_BLOCK_SIZE)

\* an image with an empty file and a file of exactly one sector
C12_Witness ==
    /\ result = "ok"
    /\ NothingStagedSince
    /\ \E n \in 1..Len(FileRecords(plan.built)) :
          FileRecords(plan.built)[n].rec.data_length = 0
    /\ \E n \in 1..Len(FileRecords(plan.built)) :
          FileRecords(plan.built)[n].rec.data_length = LOGICAL_BLOCK_SIZE

\* C13: on the image of a close() that returned Ok, read_file on the path of
\* a directory returns EntryDirectory, on a ".." entry EntryParentDirectory,
\* and on a path that is not in the image FileNotFound.
C13_ReadFileErrors ==
    (result = "ok" /\ FirstClose /\ NothingStagedSince /\ last_read.status # "none") =>
       /\ last_read.path \in StagedDirs => last_read.status = "EntryDirectory"
       /\ (last_read.path # <<>> /\ Last(last_read.path) = <<".", ".">>
           /\ last_read.path \in DOMAIN reader.entries)
            => last_read.status = "EntryParentDirectory"
       /\ last_read.path \notin DOMAIN reader.entries => last_read.status = "FileNotFound"

\* C14: the writer is single-use: once close() has been called no step
\* stages another file, calls close() again or writes to the sink.
C14_SingleUse ==
    [][closes >= 1 => (files' = files /\ closes' = closes /\ sink' = sink)]_vars

\* the kind and size of the j-th region close() is to write for its plan
PlannedRegion(j) ==
    LET D == Len(plan.dirs_sectors)
    IN  IF j = 1 THEN [kind |-> "zero", size |-> 16 * 2048]
        ELSE IF j = 2 THEN [kind |-> "pvd", size |-> 2048]
        ELSE IF j = 3 THEN [kind |-> "term", size |-> 2048]
        ELSE IF j = 4 THEN [kind |-> "zero", size |-> 2048]
        ELSE IF j = 5 THEN [kind |-> "ltable", size |-> 2 * 2048]
        ELSE IF j = 6 THEN [kind |-> "mtable", size |-> 2 * 2048]
        ELSE IF j <= 6 + D THEN [kind |-> "dir", size |-> 2048]
        ELSE [kind |-> "file", size |-> 2048]

\* C15: close() writes, in this order, 16 zero boot sectors, the PVD, the
\* terminator, one reserved zero sector, the L path table and the M path
\* table of 2 sectors each, every directory sector in planner order and
\* every file-extent sector in planner order, and flushes once after the
\* last write; a close() that stops early has written a prefix of this.
C15_WriteOrder ==
    FirstClose =>
       LET D == Len(plan.dirs_sectors)
           S == Len(plan.files_sectors)
       IN  /\ \A j \in 1..Len(sink) :
                 \/ j = Len(sink) /\ (sink[j].kind = "torn" \/ result = "panic")
                 \/ /\ j <= 6 + D + S
                    /\ sink[j].kind = PlannedRegion(j).kind
                    /\ sink[j].size = PlannedRegion(j).size
                    /\ (j > 6 /\ j <= 6 + D) =>
                          sink[j].records = plan.dirs_sectors[j - 6].entries
                    /\ j > 6 + D => sink[j].data = plan.files_sectors[j - 6 - D]
           /\ result = "ok" => (Len(sink) = 6 + D + S /\ flushes = 1)
           /\ flushes <= 1
           /\ flushes = 1 => Len(sink) = 6 + D + S

\* a complete image with several directory and file-extent sectors
C15_Witness ==
    /\ FirstClose
    /\ result = "ok"
    /\ flushes = 1
    /\ Len(plan.dirs_sectors) >= 2
    /\ Len(plan.files_sectors) >= 2

\* what a step appended to the sink
Appended == SubSeq(sink', Len(sink) + 1, Len(sink'))

\* the regions of written are, one by one, the first writes of the run,
\* except that the last one may be the torn start of the write that failed
WritesUpToFailure(written, run) ==
    /\ Len(written) <= Len(run.writes)
    /\ \A j \in 1..Len(written) :
          \/ written[j] = run.writes[j]
          \/ j = Len(written) /\ written[j].kind = "torn"

\* C16: when a write to the sink or the final flush fails during close(),
\* close() returns the I/O error, has issued the writes before the failing
\* one and none after it, leaves what the sink already held in place, and
\* does not change the staged file list.
C16_SinkFailure ==
    [][(closes' = closes + 1 /\ result' = "StdIo") =>
          /\ files' = files
          /\ IsPrefix(sink, sink')
          /\ \E overflow_checks \in BOOLEAN :
                \E run \in {CloseRun(files, overflow_checks)} :
                   /\ WritesUpToFailure(Appended, run)
                   /\ \/ /\ flushes' = flushes
                         /\ \/ Len(Appended) < Len(run.writes)
                            \/ Appended[Len(Appended)].kind = "torn"
                      \/ /\ flushes' = flushes + 1
                         /\ Appended = run.writes
                         /\ run.result = "ok"]_vars

\* a close() that failed in the middle of a write after the path tables
C16_Witness ==
    /\ result = "StdIo"
    /\ FirstClose
    /\ flushes = 0
    /\ Len(sink) >= 7
    /\ sink[Len(sink)].kind = "torn"
    /\ files # <<>>

\* the upper-case letter of every lower-case letter
CapitalOf ==
    ("a" :> "A") @@ ("b" :> "B") @@ ("c" :> "C") @@ ("d" :> "D") @@ ("e"
    :> "E") @@ ("f" :> "F") @@ ("g" :> "G") @@ ("h" :> "H") @@ ("i" :>
    "I") @@ ("j" :> "J") @@ ("k" :> "K") @@ ("l" :> "L") @@ ("m" :> "M")
    @@ ("n" :> "N") @@ ("o" :> "O") @@ ("p" :> "P") @@ ("q" :> "Q") @@
    ("r" :> "R") @@ ("s" :> "S") @@ ("t" :> "T") @@ ("u" :> "U") @@ ("v"
    :> "V") @@ ("w" :> "W") @@ ("x" :> "X") @@ ("y" :> "Y") @@ ("z" :>
    "Z")

\* the a-characters: A-Z, 0-9, '_' and !"%&'()*+,-./:;<=>?
ACharacterSet ==
    {"A", "B", "C", "D", "E", "F", "G", "H", "I", "J", "K", "L", "M",
     "N", "O", "P", "Q", "R", "S", "T", "U", "V", "W", "X", "Y", "Z",
     "0", "1", "2", "3", "4", "5", "6", "7", "8", "9", "_",
     "!", "\"", "%", "&", "'", "(", ")", "*", "+", ",", "-", ".", "/",
     ":", ";", "<", "=", ">", "?"}

\* raw with its letters uppercased and every other character that is not
\* an a-character removed
Filtered(raw) ==
    SelectSeq([i \in 1..Len(raw) |->
                 IF raw[i] \in DOMAIN CapitalOf THEN CapitalOf[raw[i]] ELSE raw[i]],
              LAMBDA c : c \in ACharacterSet)

\* the positions of s where a component starts: a character other than '/'
\* at the start of s or right after a '/'
ComponentStarts(s) ==
    SelectSeq([i \in 1..Len(s) |-> i],
              LAMBDA i : s[i] # "/" /\ (i = 1 \/ s[i - 1] = "/"))

\* the last position of the component of s that starts at position i
ComponentEnd(s, i) ==
    CHOOSE j \in i..Len(s) :
       /\ \A m \in i..j : s[m] # "/"
       /\ j = Len(s) \/ s[j + 1] = "/"

\* the path append_file is to stage for raw: the components of the filtered
\* string, each cut to its first 222 characters
ExpectedPath(raw) ==
    LET s      == Filtered(raw)
        starts == ComponentStarts(s)
    IN  [abs   |-> s # <<>> /\ s[1] = "/",
         comps |-> [k \in 1..Len(starts) |->
                      SubSeq(s, starts[k],
                             Min(ComponentEnd(s, starts[k]), starts[k] + 221))]]

\* "/foo+bar.txt"
FooBarRaw == <<"/", "f", "o", "o", "+", "b", "a", "r", ".", "t", "x", "t">>

\* "/FOO+BAR.TXT" as a path: the root and one component
FooBarStaged ==
    [abs |-> TRUE,
     comps |-> << <<"F", "O", "O", "+", "B", "A", "R", ".", "T", "X", "T">> >>]

\* C17: append_file stages the path with its letters uppercased, every
\* character outside the a-character set removed and each component cut to
\* at most 222 characters ("/foo+bar.txt" becomes "/FOO+BAR.TXT"), and
\* stages the content and the timestamp as given.
C17_Normalized ==
    last_append # NoAppend =>
       LET staged == files[Len(files)]
       IN  /\ staged.path = ExpectedPath(last_append.path)
           /\ \A k \in 1..Len(staged.path.comps) :
                 /\ Len(staged.path.comps[k]) <= 222
                 /\ \A m \in 1..Len(staged.path.comps[k]) :
                       /\ staged.path.comps[k][m] \in ACharacterSet
                       /\ staged.path.comps[k][m] # "/"
           /\ last_append.path = FooBarRaw => staged.path = FooBarStaged
           /\ staged.content = last_append.content
           /\ staged.timestamp = last_append.timestamp

\* a staged component of 222 characters cut from a longer lower-case one,
\* after "/foo+bar.txt" was staged
C17_Witness ==
    /\ Len(files) = 2
    /\ files[1].path = FooBarStaged
    /\ \E k \in 1..Len(files[2].path.comps) : Len(files[2].path.comps[k]) = 222
    /\ \E i \in 1..Len(last_append.path) : last_append.path[i] \in DOMAIN CapitalOf
    /\ Len(last_append.path) > 222
    /\ files[2].content.len > 0

\* the names of the File records of directory dir, in planner order
FileRecordNames(secs, dir) ==
    LET recs == SelectSeq(RecordsOf(secs, dir), LAMBDA e : e.entry.kind = "file")
    IN  [k \in 1..Len(recs) |-> recs[k].entry.name]

\* how many times the path of staged file i has been appended
TimesAppended(i) == Cardinality({j \in 1..Len(files) : files[j].path = files[i].path})

\* C18: a path appended k times is not deduplicated: its directory gets k
\* File records with that name, in append order among the files of the
\* directory, and each record has a run of file-extent sectors of its own;
\* the runs follow one another in the order of their records.
C18_Duplicates ==
    (NothingStagedSince /\ plan.dirs_sectors # <<>>) =>
       LET frecs == FileRecords(plan.built)
       IN  /\ \A dir \in StagedDirs :
                 FileRecordNames(plan.built, dir) = StagedFileNames(dir)
           /\ \A i \in 1..Len(files) :
                 (files[i].path.abs /\ files[i].path.comps # <<>>) =>
                    Cardinality({n \in 1..Len(frecs) :
                                   Append(frecs[n].dir, frecs[n].rec.entry.name)
                                     = files[i].path.comps})
                      = TimesAppended(i)
           /\ \A m, n \in 1..Len(frecs) :
                 m < n => frecs[m].rec.location + SectorsFor(frecs[m].rec.data_length)
                            <= frecs[n].rec.location
           /\ \A n \in 1..Len(frecs) :
                 frecs[n].rec.location + SectorsFor(frecs[n].rec.data_length)
                   <= Len(plan.files_sectors)

\* an image of a run that appended one path with a non-empty content twice
C18_Witness ==
    /\ result = "ok"
    /\ NothingStagedSince
    /\ \E i, j \in 1..Len(files) :
          /\ i < j
          /\ files[i].path = files[j].path
          /\ files[i].content.len > LOGICAL_BLOCK_SIZE
    /\ \E i \in 1..Len(files) : TimesAppended(i) = 1

\* C19: for staged files with absolute paths, in any order, with repeated
\* paths, sibling directories and nested directories, close() does not
\* panic: it ends with Ok, or with the I/O error of a sink that failed.
C19_NoPanic ==
    (\A i \in 1..Len(files) : files[i].path.abs) => result \in {"none", "ok", "StdIo"}

\* C20: when the raw L path table is larger than two sectors close() still
\* produces an image, with the M table LBA and the directory start moved
\* past the longer tables and recorded so in the PVD; when the table fits
\* the PVD records L = 19, M = 21 and the raw byte size of the L table.
C20_LargePathTable ==
    (FirstClose /\ plan.l_path_table # <<>> /\ Len(sink) >= 2 /\ sink[2].kind = "pvd") =>
       LET len     == PathTableLen(plan.l_path_table)
           sectors == SectorsFor(len)
       IN  IF len > 2 * LOGICAL_BLOCK_SIZE
           THEN /\ result # "panic"
                /\ sink[2].loc_of_type_l_path_table = 19
                /\ sink[2].loc_of_type_m_path_table = 19 + sectors
                /\ sink[2].root_location = 19 + 2 * sectors
                /\ sink[2].path_table_size = len
           ELSE /\ sink[2].loc_of_type_l_path_table = 19
                /\ sink[2].loc_of_type_m_path_table = 21
                /\ sink[2].path_table_size = len

\* the records of the directory sectors a close() wrote to the sink
WrittenRecords ==
    Flatten([j \in 1..Len(sink) |-> IF sink[j].kind = "dir" THEN sink[j].records ELSE <<>>])

\* C21: every directory record the writer emits (".", "..", file and
\* directory records) carries volume sequence number 1, the value of the
\* root directory record and of the volume_sequence_number of the PVD.
C21_VolumeSequence ==
    \A k \in 1..Len(WrittenRecords) :
       /\ WrittenRecords[k].volume_seq = 1
       /\ WrittenRecords[k].volume_seq = sink[2].root_volume_seq
       /\ WrittenRecords[k].volume_seq = sink[2].volume_sequence_number

\* C22: a timestamp whose year is outside 1900..2155 makes close() stop
\* with InvalidDate before anything is written; no record holds a year byte
\* that wrapped modulo 256.
C22_YearRange ==
    (closes >= 1 /\ \E i \in 1..Len(files) : files[i].timestamp \notin 1900..2155) =>
       /\ result = "InvalidDate"
       /\ sink = <<>>

\* the directories of the staged tree in pre-order, depth first, the
\* children of a directory in order of first appearance
RECURSIVE PreOrder(_)
PreOrder(dir) ==
    <<dir>> \o Flatten([k \in 1..Len(StagedDirNames(dir)) |->
                          PreOrder(Append(dir, StagedDirNames(dir)[k]))])

\* the base paths of the sectors of secs, each once, in order of first sector
BasesInOrder(secs) ==
    LET first == SelectSeq([i \in 1..Len(secs) |-> i],
                           LAMBDA i : \A j \in 1..(i - 1) : secs[j].base # secs[i].base)
    IN  [k \in 1..Len(first) |-> secs[first[k]].base.comps]

\* C23: after build_sectors from the root every directory of the staged
\* tree has one group_no of its own; the group_nos are 0, 1, 2, ... in
\* pre-order of the tree, which is the order of the groups by first sector;
\* the sectors of a group are adjacent; and the depth stored with a sector is
\* the depth of its directory, 0 for the root.
C23_GroupNumbers ==
    (NothingStagedSince /\ plan.built # <<>>) =>
       LET secs  == plan.built
           bases == BasesInOrder(secs)
       IN  /\ bases = PreOrder(<<>>)
           /\ {bases[k] : k \in 1..Len(bases)} = StagedDirs
           /\ \A i \in 1..Len(secs) :
                 /\ secs[i].props.depth = Len(secs[i].base.comps)
                 /\ bases[secs[i].props.group_no + 1] = secs[i].base.comps
           /\ \A i, j \in 1..Len(secs) :
                 secs[i].props.group_no = secs[j].props.group_no
                    <=> secs[i].base = secs[j].base
           /\ \A i, j, k \in 1..Len(secs) :
                 (i < j /\ j < k /\ secs[i].base = secs[k].base) => secs[j].base = secs[i].base
           /\ GroupsNew(secs) # <<>>
           /\ \A g \in 1..Len(GroupsNew(secs)) :
                 secs[GroupsNew(secs)[g].index + 1].props.group_no = g - 1

\* a plan with a directory at depth 3, a directory visited after a deeper
\* one, and at least five groups
C23_Witness ==
    /\ result = "ok"
    /\ NothingStagedSince
    /\ \E i \in 1..Len(plan.built) : plan.built[i].props.depth = 3
    /\ \E i, j \in 1..Len(plan.built) :
          i < j /\ plan.built[j].props.depth < plan.built[i].props.depth
    /\ Len(GroupsNew(plan.built)) >= 5

\* C24: every extent a record of the written image refers to lies inside
\* the volume space of the PVD: for every directory record and every
\* non-empty file record, LBA + ceil(data_length / 2048) is at most
\* volume_space_size.
C24_ExtentsInVolume ==
    (result = "ok" /\ FirstClose) =>
       \A k \in 1..Len(WrittenRecords) :
          LET r == WrittenRecords[k]
          IN  (r.entry.kind # "file" \/ r.data_length > 0) =>
                 r.location + SectorsFor(r.data_length) <= sink[2].volume_space_size

\* C25: for every staged name the record length IsoDirectoryEntry::new
\* computes, 33 + identifier length rounded up to even, fits the one-byte
\* length field without overflow and is the number of bytes
\* IsoDirectoryEntry::write emits for the record.
C25_RecordLength ==
    \A i \in 1..Len(plan.built) :
       \A k \in 1..Len(plan.built[i].entries) :
          LET r      == plan.built[i].entries[k]
              id_len == Len(EntryName(r.entry))
          IN  /\ ~r.ovf
              /\ r.length = DirHeaderSize + id_len + ((DirHeaderSize + id_len) % 2)
              /\ r.length <= 255
              /\ r.length = EntryWriteSize(r)

\* C26: the planner loses no staged file: the File records over all
\* directory sectors are as many as the append_file calls, whatever the
\* paths - relative, the root itself, or a prefix of another staged path.
C26_NoFileLost ==
    (closes >= 1 /\ NothingStagedSince /\ plan.built # <<>>) =>
       Len(FileRecords(plan.built)) = Len(files)

\* C27: for a directory whose group has more than one sector the reader
\* visits the records of every sector of the group: the files recorded in
\* the second and later sectors are in the entry map and read_file finds
\* them.
C27_MultiSectorWalk ==
    (result = "ok" /\ FirstClose /\ NothingStagedSince /\ reader.status = "ok") =>
       \A i \in 1..Len(plan.dirs_sectors) :
          \A k \in 1..Len(plan.dirs_sectors[i].entries) :
             LET r   == plan.dirs_sectors[i].entries[k]
                 dir == plan.dirs_sectors[i].base.comps
             IN  (r.entry.kind = "file" /\ i > FirstSector(plan.dirs_sectors, dir)) =>
                    /\ Append(dir, r.entry.name) \in DOMAIN reader.entries
                    /\ ReadFile(sink, reader.entries, Append(dir, r.entry.name)).status = "Ok"

\* C28: the kind of an entry survives the round trip: the identifier the
\* writer emits for Directory(name) is parsed by the reader as
\* Directory(name) and the one for File(name) as File(name), also when the
\* name contains ";1".
C28_EntryKindRoundTrip ==
    \A k \in 1..Len(WrittenRecords) :
       EntryFromBytes(EntryName(WrittenRecords[k].entry)) = WrittenRecords[k].entry

\* C29: set_locations works for any number of directories: every sector
\* that holds a Directory record has a group_no inside the 128 slots of
\* count_stack, and set_locations gives every built sector its locations
\* without an access out of range.
C29_CountStack ==
    /\ \A i \in 1..Len(plan.built) :
          (\E k \in 1..Len(plan.built[i].entries) :
              plan.built[i].entries[k].entry.kind = "dir")
             => plan.built[i].props.group_no < CountStackLen
    /\ plan.built # <<>> => Len(plan.dirs_sectors) = Len(plan.built)

\* the LBAs of the extent the "." record of directory dir declares
DirExtent(secs, dir) ==
    LET dot == RecordsOf(secs, dir)[1]
    IN  dot.location .. (dot.location + SectorsFor(dot.data_length) - 1)

\* the File records of secs with a content, in planner order
NonEmptyFileRecords(secs) ==
    SelectSeq(FileRecords(secs), LAMBDA fr : fr.rec.data_length > 0)

\* C30: in a written image the extents do not overlap: the sector ranges of
\* the directory groups are pairwise disjoint and cover exactly LBAs 23 ..
\* 23 + D - 1, every directory sector being written inside the range of its
\* group; the ranges of the non-empty File records are contiguous, in
\* record order, and start at LBA 23 + D.
C30_NoOverlap ==
    (result = "ok" /\ FirstClose) =>
       LET secs  == plan.dirs_sectors
           D     == Len(secs)
           dirs  == {secs[i].base.comps : i \in 1..D}
           frecs == NonEmptyFileRecords(secs)
       IN  /\ \A d, e \in dirs : d # e => DirExtent(secs, d) \cap DirExtent(secs, e) = {}
           /\ UNION {DirExtent(secs, d) : d \in dirs} = 23..(23 + D - 1)
           /\ \A i \in 1..D :
                 /\ 23 + i - 1 \in DirExtent(secs, secs[i].base.comps)
                 /\ sink[6 + i].kind = "dir"
                 /\ RegionOffset(6 + i) = (23 + i - 1) * LOGICAL_BLOCK_SIZE
           /\ \A n \in 1..Len(frecs) :
                 /\ frecs[n].rec.location >= 23 + D
                 /\ frecs[n].rec.location
                      = (IF n = 1 THEN 23 + D
                         ELSE frecs[n - 1].rec.location
                                + SectorsFor(frecs[n - 1].rec.data_length))

\* an image with a directory of two sectors and two files with a content
C30_Witness ==
    /\ result = "ok"
    /\ FirstClose
    /\ \E i \in 1..(Len(plan.dirs_sectors) - 1) :
          plan.dirs_sectors[i].base = plan.dirs_sectors[i + 1].base
    /\ Len(NonEmptyFileRecords(plan.dirs_sectors)) >= 2

=============================================================================
